---- MODULE Spec2Model ----
(***************************************************************************)
(* A model of the jst template tokenizer (src/src/internal/tokenizer.ts),  *)
(* its position tracker and token model (src/src/common.ts) and the token  *)
(* compressor (token_compressor.ts, kept with its test file).              *)
(*                                                                         *)
(* A JS string is a sequence of UTF-16 code units, each written as a TLA+   *)
(* string; a character handed to processCharacter is itself a JS string of *)
(* one code unit, or of two for a surrogate pair.  The mutable JS objects  *)
(* (the tokenizer State, the Token[] arrays, the compressor State) are     *)
(* records and sequences; a function that mutates its arguments is an      *)
(* operator returning the mutated values.                                  *)
(***************************************************************************)
EXTENDS Integers, Sequences, FiniteSets, TLC

VARIABLES
  pc,         \* lifecycle of the TokenizerStreamTransformer: new/started/flushed/errored
  state,      \* the tokenizer State object (#state of the transformer)
  value,      \* the text written to the tokenizer so far (code units)
  processed,  \* the characters handed to processCharacter so far, in order
  tokens,     \* every token the tokenizer has enqueued, in order
  error,      \* the error the tokenizer side ended with, or NoError
  result,     \* outcome of a call tokenize(value), once made
  compressed, \* outcome of compressTokens(result.tokens), once made
  cpc,        \* the compressor stream: open/flushed
  cstate,     \* the compressor State object ({lastToken?})
  consumed,   \* number of tokens the compressor has taken from `tokens`
  produced,   \* tokens returned by the compressor's latest call
  output,     \* every token the compressor has emitted, in order
  concatenated, \* outcome of a direct call this.concat(other), once made
  dtracker,    \* a LocationTracker a caller uses directly
  dsnapshot,       \* the LocationSnapshot that caller took last
  call,       \* that caller's latest call: what was called, and its outcome
  sessions,   \* tokenization sessions running side by side
  heap        \* the LocationTracker objects those sessions' states refer to

vars == <<pc, state, value, processed, tokens, error, result, compressed,
          cpc, cstate, consumed, produced, output, concatenated,
          dtracker, dsnapshot, call, sessions, heap>>

\* the variables of the callers that use common.ts directly and of the
\* sessions running side by side
otherVars == <<dtracker, dsnapshot, call, sessions, heap>>

----------------------------------------------------------------------------
(* Bounds of the model *)

\* longest input written to one tokenizer in Spec
MaxLen == 4

\* longest chunk written at once
MaxChunk == 2

\* most tokens handed to the compressor by a source other than the tokenizer
MaxTokens == 3

\* largest offset of such a token
MaxOffset == 2

\* largest offset a LocationTracker that a caller uses directly is moved to
MaxPosition == 3

\* largest increment such a caller passes
MaxIncrement == 2

\* number of tokenization sessions running side by side
MaxSessions == 2

\* largest number of characters one of those sessions processes
MaxSessionLen == 2

----------------------------------------------------------------------------
(* Characters and strings *)

\* the two code units of a character outside the basic plane (U+1F600)
HighSurrogate == "U+D83D"

LowSurrogate == "U+DE00"

\* The code units the writer draws from: the characters the tokenizer
\* distinguishes, one ordinary character and one surrogate pair.
Chars == {"a", "\\", "{", "}", "\n", "\r", HighSurrogate, LowSurrogate}

SeqsUpTo(S, n) == UNION {[1..k -> S] : k \in 0..n}

\* JS `undefined` held in a string-typed field (it is no string of code units).
undefined == <<"undefined">>

\* JS `undefined` held in the number-typed field n; a number k is held as <<k>>.
undefinedNumber == <<>>

Num(k) == <<k>>

----------------------------------------------------------------------------
(* common.ts: Range, Location, LocationSnapshot, LocationTracker, Token *)

Literal == "Literal"

Interpolation == "Interpolation"

\* new Range(start, end) fails for start < 0 or end < start
RangeThrows(start, end) == start < 0 \/ end < start

\* new Location(line, column) fails for line < 1 or column < 0
LocationThrows(l, c) == l < 1 \/ c < 0

Location(l, c) == [line |-> l, column |-> c]

RangeWithLocation(start, end, startLocation, endLocation) ==
  [start |-> start, end |-> end,
   startLocation |-> startLocation, endLocation |-> endLocation]

LocationSnapshot(o, l, c) == [offset |-> o, line |-> l, column |-> c]

NoError == "none"

\* the error `new RangeWithLocation(start, end, new Location(..), new
\* Location(..))` throws, if any: the two Locations are built first, the
\* receiver's before the argument's, then the Range constructor runs.
\* completeErrorUnordered leaves out the Range constructor's test of the order
completeErrorUnordered(this, other) ==
  IF this.line < 1 THEN "Line number must be greater than or equal to 1"
  ELSE IF this.column < 0
  THEN "Column number must be greater than or equal to 0"
  ELSE IF other.line < 1
  THEN "Line number must be greater than or equal to 1"
  ELSE IF other.column < 0
  THEN "Column number must be greater than or equal to 0"
  ELSE IF this.offset < 0
  THEN "Start offset must be greater than or equal to 0"
  ELSE NoError

completeError(this, other) ==
  IF this.line < 1 THEN "Line number must be greater than or equal to 1"
  ELSE IF this.column < 0
  THEN "Column number must be greater than or equal to 0"
  ELSE IF other.line < 1
  THEN "Line number must be greater than or equal to 1"
  ELSE IF other.column < 0
  THEN "Column number must be greater than or equal to 0"
  ELSE IF this.offset < 0
  THEN "Start offset must be greater than or equal to 0"
  ELSE IF other.offset < this.offset
  THEN "End offset must be greater than or equal to start"
  ELSE NoError

\* LocationSnapshot.complete(other)
complete(this, other) ==
  RangeWithLocation(this.offset, other.offset,
                    Location(this.line, this.column),
                    Location(other.line, other.column))

\* new LocationTracker()
LocationTracker == [offset |-> 0, line |-> 1, column |-> 0]

\* column that moves the tracker before it looks at n
columnUnchecked(tracker, n) ==
  [tracker EXCEPT !.column = @ + n, !.offset = @ + n]

\* LocationTracker.column(n), for n >= 0 (n < 0 throws, tracker unchanged)
column(tracker, n) ==
  IF n < 0 THEN tracker
  ELSE [tracker EXCEPT !.column = @ + n, !.offset = @ + n]

\* line that leaves the column where it was
lineKeepingColumn(tracker, n) ==
  IF n < 0 THEN tracker
  ELSE [tracker EXCEPT !.line = @ + n, !.offset = @ + n]

\* LocationTracker.line(n), for n >= 0 (n < 0 throws, tracker unchanged)
line(tracker, n) ==
  IF n < 0 THEN tracker
  ELSE [tracker EXCEPT !.line = @ + n, !.column = 0, !.offset = @ + n]

\* LocationTracker.offset(n): advances the offset only
offset(tracker, n) ==
  IF n < 0 THEN tracker
  ELSE [tracker EXCEPT !.offset = @ + n]

\* the error column(n) throws, if any
columnError(n) ==
  IF n < 0 THEN "Column increment must be non-negative" ELSE NoError

\* the error line(n) throws, if any
lineError(n) ==
  IF n < 0 THEN "Line increment must be non-negative" ELSE NoError

\* the error offset(n) throws, if any
offsetError(n) ==
  IF n < 0 THEN "Offset increment must be non-negative" ELSE NoError

\* the parameter `n: number = 1`: the arguments <<>> stand for a call without
\* argument
increment(args) == IF args = <<>> THEN 1 ELSE args[1]

\* the Range constructor refusing ranges of length zero as well
RangeErrorNoEmpty(start, end) ==
  IF start < 0 THEN "Start offset must be greater than or equal to 0"
  ELSE IF end <= start
  THEN "End offset must be greater than or equal to start"
  ELSE NoError

\* the error new Range(start, end) throws, if any
RangeError(start, end) ==
  IF start < 0 THEN "Start offset must be greater than or equal to 0"
  ELSE IF end < start THEN "End offset must be greater than or equal to start"
  ELSE NoError

\* new Range(start, end)
Range(start, end) == [start |-> start, end |-> end]

\* Range.length
length(range) == range.end - range.start

\* LocationTracker.snapshot()
snapshot(tracker) ==
  LocationSnapshot(tracker.offset, tracker.line, tracker.column)

\* LocationTracker.complete(snapshot)
trackerComplete(tracker, snap) == complete(snap, snapshot(tracker))

\* new Token(type, value, range)
Token(type, val, range) == [type |-> type, value |-> val, range |-> range]

----------------------------------------------------------------------------
(* tokenizer.ts *)

ModeLiteral == "Mode.Literal"

ModeEscape == "Mode.Escape"

ModeInterpolation == "Mode.Interpolation"

EscapeError ==
  "Unexpected end of input in escape mode. Did you forget to escape a character?"

InterpolationError ==
  "Unexpected end of input in interpolation mode. Did you forget to close a brace?"

\* createState(): n is not set, so it reads as undefined
createState ==
  [locationTracker |-> LocationTracker,
   locationSnapshot |-> snapshot(LocationTracker),
   type |-> ModeLiteral,
   buffer |-> <<>>,
   n |-> undefinedNumber]

\* trackCharacter with the carriage return counted as a column
trackCharacterCountingCr(st, character) ==
  CASE character = <<"\n">> ->
         [st EXCEPT !.locationTracker = line(st.locationTracker, 1)]
    [] OTHER ->
         [st EXCEPT !.locationTracker = column(st.locationTracker, 1)]

\* trackCharacter(state, character)
trackCharacter(st, character) ==
  CASE character = <<"\n">> ->
         [st EXCEPT !.locationTracker = line(st.locationTracker, 1)]
    [] character = <<"\r">> ->
         [st EXCEPT !.locationTracker = offset(st.locationTracker, 1)]
    [] OTHER ->
         [st EXCEPT !.locationTracker = column(st.locationTracker, 1)]

\* The functions below mutate the state and push to the tokens array; each is
\* an operator giving the state and the tokens it leaves and the error it
\* throws, if any.  A throw leaves what was assigned before it.

\* flushRange that leaves the snapshot where it was
flushRangeKeepingSnapshot(st) ==
  LET snap == snapshot(st.locationTracker)
  IN  [range |-> complete(st.locationSnapshot, snap), state |-> st,
       error |-> completeError(st.locationSnapshot, snap)]

\* flushRange(state): the range since the last snapshot; moves the snapshot
flushRange(st) ==
  LET snap == snapshot(st.locationTracker)
      err  == completeError(st.locationSnapshot, snap)
  IN  IF err # NoError
      THEN [range |-> complete(st.locationSnapshot, snap), state |-> st,
            error |-> err]
      ELSE [range |-> complete(st.locationSnapshot, snap),
            state |-> [st EXCEPT !.locationSnapshot = snap],
            error |-> NoError]

\* flushBuffer without the test for an empty buffer
flushBufferEvenIfEmpty(st, toks, type) ==
  LET fr == flushRange(st)
  IN  IF fr.error # NoError
      THEN [state |-> fr.state, tokens |-> toks, error |-> fr.error]
      ELSE [state  |-> [fr.state EXCEPT !.buffer = <<>>],
            tokens |-> Append(toks, Token(type, st.buffer, fr.range)),
            error  |-> NoError]

\* flushBuffer(state, tokens, type)
flushBuffer(st, toks, type) ==
  IF Len(st.buffer) > 0
  THEN LET fr == flushRange(st)
       IN  IF fr.error # NoError
           THEN [state |-> fr.state, tokens |-> toks, error |-> fr.error]
           ELSE [state  |-> [fr.state EXCEPT !.buffer = <<>>],
                 tokens |-> Append(toks, Token(type, st.buffer, fr.range)),
                 error  |-> NoError]
  ELSE [state |-> st, tokens |-> toks, error |-> NoError]

\* the transition to Escape mode leaving the buffer field as it is
transitionFromLiteralToEscapeModeKeepingBuffer(st, toks) ==
  LET fb == flushBuffer(st, toks, Literal)
  IN  IF fb.error # NoError THEN fb
      ELSE [fb EXCEPT !.state.type = ModeEscape]

\* transitionFromLiteralToEscapeMode(state, tokens)
transitionFromLiteralToEscapeMode(st, toks) ==
  LET fb == flushBuffer(st, toks, Literal)
  IN  IF fb.error # NoError THEN fb
      ELSE [fb EXCEPT !.state.type = ModeEscape, !.state.buffer = undefined]

\* the transition to Interpolation mode starting the depth at 0
transitionFromLiteralToInterpolationModeDepthZero(st, toks) ==
  LET fb == flushBuffer(st, toks, Literal)
  IN  IF fb.error # NoError THEN fb
      ELSE [fb EXCEPT !.state.type = ModeInterpolation,
                      !.state.n = Num(0), !.state.buffer = <<>>]

\* transitionFromLiteralToInterpolationMode(state, tokens)
transitionFromLiteralToInterpolationMode(st, toks) ==
  LET fb == flushBuffer(st, toks, Literal)
  IN  IF fb.error # NoError THEN fb
      ELSE [fb EXCEPT !.state.type = ModeInterpolation,
                      !.state.n = Num(1), !.state.buffer = <<>>]

\* processLiteralCharacter(state, character, tokens)
processLiteralCharacter(st, character, toks) ==
  CASE character = <<"\\">> -> transitionFromLiteralToEscapeMode(st, toks)
    [] character = <<"{">> ->
         transitionFromLiteralToInterpolationMode(st, toks)
    [] OTHER -> [state  |-> [st EXCEPT !.buffer = @ \o character],
                 tokens |-> toks, error |-> NoError]

\* the transition out of Escape mode that stays in it
transitionFromEscapeToLiteralModeStaying(st) == st

\* transitionFromEscapeToLiteralMode(state)
transitionFromEscapeToLiteralMode(st) ==
  [st EXCEPT !.type = ModeLiteral, !.buffer = <<>>]

\* processEscapeCharacter that drops the backslash before every character
processEscapeCharacterDroppingBackslash(st, character, toks) ==
  LET fr == flushRange(st)
  IN  IF fr.error # NoError
      THEN [state |-> fr.state, tokens |-> toks, error |-> fr.error]
      ELSE [state  |-> transitionFromEscapeToLiteralMode(fr.state),
            tokens |-> Append(toks, Token(Literal, character, fr.range)),
            error  |-> NoError]

\* processEscapeCharacter(state, character, tokens)
processEscapeCharacter(st, character, toks) ==
  LET fr  == flushRange(st)
      val == IF character \in {<<"{">>, <<"\\">>} THEN character
             ELSE <<"\\">> \o character
  IN  IF fr.error # NoError
      THEN [state |-> fr.state, tokens |-> toks, error |-> fr.error]
      ELSE [state  |-> transitionFromEscapeToLiteralMode(fr.state),
            tokens |-> Append(toks, Token(Literal, val, fr.range)),
            error  |-> NoError]

\* the transition emitting the interpolation whether or not it holds anything
transitionFromInterpolationToLiteralModeEmittingEmpty(st, toks) ==
  LET fb == flushBufferEvenIfEmpty(st, toks, Interpolation)
  IN  IF fb.error # NoError THEN fb
      ELSE [fb EXCEPT !.state.type = ModeLiteral, !.state.buffer = <<>>,
                      !.state.n = undefinedNumber]

\* transitionFromInterpolationToLiteralMode(state, tokens)
transitionFromInterpolationToLiteralMode(st, toks) ==
  LET fb == flushBuffer(st, toks, Interpolation)
  IN  IF fb.error # NoError THEN fb
      ELSE [fb EXCEPT !.state.type = ModeLiteral, !.state.buffer = <<>>,
                      !.state.n = undefinedNumber]

\* processInterpolationCharacter that closes at the first } whatever the depth
processInterpolationCharacterFirstBrace(st, character, toks) ==
  CASE character = <<"{">> ->
         [state  |-> [st EXCEPT !.n = Num(@[1] + 1),
                                !.buffer = @ \o character],
          tokens |-> toks, error |-> NoError]
    [] character = <<"}">> ->
         transitionFromInterpolationToLiteralMode(
           [st EXCEPT !.n = Num(@[1] - 1)], toks)
    [] OTHER ->
         [state  |-> [st EXCEPT !.buffer = @ \o character],
          tokens |-> toks, error |-> NoError]

\* processInterpolationCharacter(state, character, tokens)
\* processInterpolationCharacter that takes a brace after a backslash as text
processInterpolationCharacterEscapeAware(st, character, toks) ==
  IF Len(st.buffer) > 0 /\ st.buffer[Len(st.buffer)] = "\\"
  THEN [state  |-> [st EXCEPT !.buffer = @ \o character],
        tokens |-> toks, error |-> NoError]
  ELSE CASE character = <<"{">> ->
              [state  |-> [st EXCEPT !.n = Num(@[1] + 1),
                                     !.buffer = @ \o character],
               tokens |-> toks, error |-> NoError]
         [] character = <<"}">> ->
              LET dec == [st EXCEPT !.n = Num(@[1] - 1)]
              IN  IF dec.n[1] = 0
                  THEN transitionFromInterpolationToLiteralMode(dec, toks)
                  ELSE [state  |-> [dec EXCEPT !.buffer = @ \o character],
                        tokens |-> toks, error |-> NoError]
         [] OTHER ->
              [state  |-> [st EXCEPT !.buffer = @ \o character],
               tokens |-> toks, error |-> NoError]

processInterpolationCharacter(st, character, toks) ==
  CASE character = <<"{">> ->
         [state  |-> [st EXCEPT !.n = Num(@[1] + 1),
                                !.buffer = @ \o character],
          tokens |-> toks, error |-> NoError]
    [] character = <<"}">> ->
         LET dec == [st EXCEPT !.n = Num(@[1] - 1)]
         IN  IF dec.n[1] = 0
             THEN transitionFromInterpolationToLiteralMode(dec, toks)
             ELSE [state  |-> [dec EXCEPT !.buffer = @ \o character],
                   tokens |-> toks, error |-> NoError]
    [] OTHER ->
         [state  |-> [st EXCEPT !.buffer = @ \o character],
          tokens |-> toks, error |-> NoError]

\* processCharacter(state, character, tokens)
processCharacter(st, character, toks) ==
  LET tracked == trackCharacter(st, character)
  IN  CASE tracked.type = ModeLiteral ->
             processLiteralCharacter(tracked, character, toks)
        [] tracked.type = ModeEscape ->
             processEscapeCharacter(tracked, character, toks)
        [] tracked.type = ModeInterpolation ->
             processInterpolationCharacter(tracked, character, toks)

\* `for (const char of chunk)`: the string iterator yields the characters of
\* the string from code unit i on, a high surrogate directly followed by a low
\* surrogate as one character of two code units, any other code unit alone
RECURSIVE charactersFrom(_, _)
charactersFrom(str, i) ==
  IF i > Len(str) THEN <<>>
  ELSE IF /\ str[i] = HighSurrogate
          /\ i < Len(str)
          /\ str[i + 1] = LowSurrogate
       THEN <<SubSeq(str, i, i + 1)>> \o charactersFrom(str, i + 2)
       ELSE <<SubSeq(str, i, i)>> \o charactersFrom(str, i + 1)

characters(str) == charactersFrom(str, 1)

\* the loop body `processCharacter(state, char, tokens)` over the characters:
\* the characters in order, each on the state and tokens the previous one
\* left, up to the first throw (the run over the first half is completed, then
\* the run over the rest goes on from it, which keeps the evaluation shallow
\* on long inputs)
RECURSIVE processCharacters(_, _, _)
processCharacters(st, chars, toks) ==
  CASE Len(chars) = 0 -> [state |-> st, tokens |-> toks, error |-> NoError]
    [] Len(chars) = 1 -> processCharacter(st, chars[1], toks)
    [] OTHER ->
         LET h     == Len(chars) \div 2
             first == processCharacters(st, SubSeq(chars, 1, h), toks)
         IN  IF first.error # NoError THEN first
             ELSE processCharacters(first.state,
                                    SubSeq(chars, h + 1, Len(chars)),
                                    first.tokens)

\* tokenizeChunk(state, chunk): a fresh tokens array per call, returned unless
\* a character throws
tokenizeChunk(st, chunk) ==
  LET run == processCharacters(st, characters(chunk), <<>>)
  IN  IF run.error # NoError THEN [run EXCEPT !.tokens = <<>>] ELSE run

\* flushState that lets a dangling backslash pass
flushStateIgnoringEscape(st, toks) ==
  CASE st.type = ModeLiteral ->
         LET fb == flushBuffer(st, toks, Literal)
         IN  [state |-> fb.state, tokens |-> fb.tokens, error |-> fb.error,
              returned |-> IF fb.error # NoError \/ fb.tokens = <<>>
                           THEN <<>> ELSE <<fb.tokens[1]>>]
    [] st.type = ModeEscape ->
         [state |-> st, tokens |-> toks, error |-> NoError,
          returned |-> <<>>]
    [] st.type = ModeInterpolation ->
         [state |-> st, tokens |-> toks, error |-> InterpolationError,
          returned |-> <<>>]

\* flushState that leaves the last buffer where it is
flushStateKeepingBuffer(st, toks) ==
  CASE st.type = ModeLiteral ->
         [state |-> st, tokens |-> toks, error |-> NoError,
          returned |-> IF toks = <<>> THEN <<>> ELSE <<toks[1]>>]
    [] st.type = ModeEscape ->
         [state |-> st, tokens |-> toks, error |-> EscapeError,
          returned |-> <<>>]
    [] st.type = ModeInterpolation ->
         [state |-> st, tokens |-> toks, error |-> InterpolationError,
          returned |-> <<>>]

\* flushState that puts the state back in Literal mode before it throws
flushStateResetting(st, toks) ==
  CASE st.type = ModeLiteral ->
         LET fb == flushBuffer(st, toks, Literal)
         IN  [state |-> fb.state, tokens |-> fb.tokens, error |-> fb.error,
              returned |-> IF fb.error # NoError \/ fb.tokens = <<>>
                           THEN <<>> ELSE <<fb.tokens[1]>>]
    [] st.type = ModeEscape ->
         [state |-> transitionFromEscapeToLiteralMode(st), tokens |-> toks,
          error |-> EscapeError, returned |-> <<>>]
    [] st.type = ModeInterpolation ->
         [state |-> [st EXCEPT !.type = ModeLiteral, !.buffer = <<>>,
                               !.n = undefinedNumber],
          tokens |-> toks, error |-> InterpolationError, returned |-> <<>>]

\* flushState(state, tokens): returns tokens[0], or throws
flushState(st, toks) ==
  CASE st.type = ModeLiteral ->
         LET fb == flushBuffer(st, toks, Literal)
         IN  [state |-> fb.state, tokens |-> fb.tokens, error |-> fb.error,
              returned |-> IF fb.error # NoError \/ fb.tokens = <<>>
                           THEN <<>> ELSE <<fb.tokens[1]>>]
    [] st.type = ModeEscape ->
         [state |-> st, tokens |-> toks, error |-> EscapeError,
          returned |-> <<>>]
    [] st.type = ModeInterpolation ->
         [state |-> st, tokens |-> toks, error |-> InterpolationError,
          returned |-> <<>>]

\* tokenize(value): the tokens array it returns, or the error it throws
tokenize(val) ==
  LET run == processCharacters(createState, characters(val), <<>>)
      fl  == flushState(run.state, run.tokens)
  IN  CASE run.error # NoError -> [tokens |-> <<>>, error |-> run.error]
        [] fl.error # NoError  -> [tokens |-> <<>>, error |-> fl.error]
        [] OTHER               -> [tokens |-> fl.tokens, error |-> NoError]

----------------------------------------------------------------------------
(* token_compressor.ts *)

\* `lastToken?: Token`: no token is <<>>, a token t is <<t>>
NoToken == <<>>

\* concat that fails for tokens of different types only
concatThrowsTypesOnly(this, other) == this.type # other.type

\* Token.concat(other) fails for tokens of different types or not adjacent
concatThrows(this, other) ==
  this.type # other.type \/ this.range.end # other.range.start

\* concat that keeps the range of this token
concatKeepingRange(this, other) ==
  Token(this.type, this.value \o other.value, this.range)

\* Token.concat(other): the token spanning both
concat(this, other) ==
  Token(this.type, this.value \o other.value,
        RangeWithLocation(this.range.start, other.range.end,
                          this.range.startLocation, other.range.endLocation))

\* flushState of the compressor that returns the token and keeps it
compressorFlushStateKeepingToken(cs) ==
  IF cs.lastToken # NoToken
  THEN [state |-> cs, tokens |-> cs.lastToken]
  ELSE [state |-> cs, tokens |-> <<>>]

\* flushState(state) of the compressor
compressorFlushState(cs) ==
  IF cs.lastToken # NoToken
  THEN [state |-> [cs EXCEPT !.lastToken = NoToken], tokens |-> cs.lastToken]
  ELSE [state |-> cs, tokens |-> <<>>]

\* processToken that holds no token back, so that nothing is merged
processTokenNoMerge(cs, nextToken) ==
  [state |-> cs, tokens |-> <<nextToken>>, threw |-> FALSE]

\* processToken that merges tokens of one type whether or not they touch
processTokenAnyGap(cs, nextToken) ==
  LET fl == IF /\ cs.lastToken # NoToken
               /\ cs.lastToken[1].type # nextToken.type
            THEN compressorFlushState(cs)
            ELSE [state |-> cs, tokens |-> <<>>]
  IN  IF /\ fl.state.lastToken # NoToken
         /\ fl.state.lastToken[1].type = nextToken.type
      THEN [state  |-> [fl.state EXCEPT
                          !.lastToken = <<concat(@[1], nextToken)>>],
            tokens |-> fl.tokens,
            threw  |-> FALSE]
      ELSE IF nextToken.type = Literal
      THEN [state  |-> [fl.state EXCEPT !.lastToken = <<nextToken>>],
            tokens |-> fl.tokens,
            threw  |-> FALSE]
      ELSE [state  |-> fl.state,
            tokens |-> Append(fl.tokens, nextToken),
            threw  |-> FALSE]

\* processToken whose switch holds every type back as eligible for compression
processTokenAnyType(cs, nextToken) ==
  LET fl == IF /\ cs.lastToken # NoToken
               /\ \/ cs.lastToken[1].type # nextToken.type
                  \/ cs.lastToken[1].range.end # nextToken.range.start
            THEN compressorFlushState(cs)
            ELSE [state |-> cs, tokens |-> <<>>]
  IN  IF /\ fl.state.lastToken # NoToken
         /\ fl.state.lastToken[1].type = nextToken.type
         /\ fl.state.lastToken[1].range.end = nextToken.range.start
      THEN [state  |-> [fl.state EXCEPT
                          !.lastToken = <<concat(@[1], nextToken)>>],
            tokens |-> fl.tokens,
            threw  |-> FALSE]
      ELSE [state  |-> [fl.state EXCEPT !.lastToken = <<nextToken>>],
            tokens |-> fl.tokens,
            threw  |-> FALSE]

\* processToken whose Literal case falls through to the default case, so that
\* the token is held back and returned as well
processTokenFallThrough(cs, nextToken) ==
  LET fl == IF /\ cs.lastToken # NoToken
               /\ \/ cs.lastToken[1].type # nextToken.type
                  \/ cs.lastToken[1].range.end # nextToken.range.start
            THEN compressorFlushState(cs)
            ELSE [state |-> cs, tokens |-> <<>>]
  IN  IF /\ fl.state.lastToken # NoToken
         /\ fl.state.lastToken[1].type = nextToken.type
         /\ fl.state.lastToken[1].range.end = nextToken.range.start
      THEN [state  |-> [fl.state EXCEPT
                          !.lastToken = <<concat(@[1], nextToken)>>],
            tokens |-> fl.tokens,
            threw  |-> FALSE]
      ELSE IF nextToken.type = Literal
      THEN [state  |-> [fl.state EXCEPT !.lastToken = <<nextToken>>],
            tokens |-> Append(fl.tokens, nextToken),
            threw  |-> FALSE]
      ELSE [state  |-> fl.state,
            tokens |-> Append(fl.tokens, nextToken),
            threw  |-> FALSE]

\* processToken that returns a concatenation at once instead of holding it
\* back for the tokens that follow
processTokenMergingPairs(cs, nextToken) ==
  LET fl == IF /\ cs.lastToken # NoToken
               /\ \/ cs.lastToken[1].type # nextToken.type
                  \/ cs.lastToken[1].range.end # nextToken.range.start
            THEN compressorFlushState(cs)
            ELSE [state |-> cs, tokens |-> <<>>]
  IN  IF /\ fl.state.lastToken # NoToken
         /\ fl.state.lastToken[1].type = nextToken.type
         /\ fl.state.lastToken[1].range.end = nextToken.range.start
      THEN [state  |-> [fl.state EXCEPT !.lastToken = NoToken],
            tokens |-> Append(fl.tokens,
                              concat(fl.state.lastToken[1], nextToken)),
            threw  |-> FALSE]
      ELSE IF nextToken.type = Literal
      THEN [state  |-> [fl.state EXCEPT !.lastToken = <<nextToken>>],
            tokens |-> fl.tokens,
            threw  |-> FALSE]
      ELSE [state  |-> fl.state,
            tokens |-> Append(fl.tokens, nextToken),
            threw  |-> FALSE]

\* processToken that compares only the types before it flushes or merges, so
\* that concat is called with tokens that do not touch
processTokenUncheckedRange(cs, nextToken) ==
  LET fl == IF /\ cs.lastToken # NoToken
               /\ cs.lastToken[1].type # nextToken.type
            THEN compressorFlushState(cs)
            ELSE [state |-> cs, tokens |-> <<>>]
  IN  IF /\ fl.state.lastToken # NoToken
         /\ fl.state.lastToken[1].type = nextToken.type
      THEN IF concatThrows(fl.state.lastToken[1], nextToken)
           THEN [state |-> fl.state, tokens |-> <<>>, threw |-> TRUE]
           ELSE [state  |-> [fl.state EXCEPT
                               !.lastToken = <<concat(@[1], nextToken)>>],
                 tokens |-> fl.tokens,
                 threw  |-> FALSE]
      ELSE IF nextToken.type = Literal
      THEN [state  |-> [fl.state EXCEPT !.lastToken = <<nextToken>>],
            tokens |-> fl.tokens,
            threw  |-> FALSE]
      ELSE [state  |-> fl.state,
            tokens |-> Append(fl.tokens, nextToken),
            threw  |-> FALSE]

\* processToken(state, nextToken): the produced tokens; threw is TRUE when
\* the call to concat fails
processToken(cs, nextToken) ==
  LET fl == IF /\ cs.lastToken # NoToken
               /\ \/ cs.lastToken[1].type # nextToken.type
                  \/ cs.lastToken[1].range.end # nextToken.range.start
            THEN compressorFlushState(cs)
            ELSE [state |-> cs, tokens |-> <<>>]
  IN  IF /\ fl.state.lastToken # NoToken
         /\ fl.state.lastToken[1].type = nextToken.type
         /\ fl.state.lastToken[1].range.end = nextToken.range.start
      THEN [state  |-> [fl.state EXCEPT
                          !.lastToken = <<concat(@[1], nextToken)>>],
            tokens |-> fl.tokens,
            threw  |-> concatThrows(fl.state.lastToken[1], nextToken)]
      ELSE IF nextToken.type = Literal
      THEN [state  |-> [fl.state EXCEPT !.lastToken = <<nextToken>>],
            tokens |-> fl.tokens,
            threw  |-> FALSE]
      ELSE [state  |-> fl.state,
            tokens |-> Append(fl.tokens, nextToken),
            threw  |-> FALSE]

\* the loop of compressTokens over the tokens
RECURSIVE processTokens(_, _, _)
processTokens(cs, toks, out) ==
  IF toks = <<>> THEN [state |-> cs, output |-> out, threw |-> FALSE]
  ELSE LET step == processToken(cs, Head(toks))
       IN  IF step.threw
           THEN [state |-> step.state, output |-> out, threw |-> TRUE]
           ELSE processTokens(step.state, Tail(toks), out \o step.tokens)

\* compressTokens(tokens)
compressTokens(toks) ==
  LET run == processTokens([lastToken |-> NoToken], toks, <<>>)
  IN  IF run.threw THEN [tokens |-> run.output, threw |-> TRUE]
      ELSE [tokens |-> run.output \o compressorFlushState(run.state).tokens,
            threw |-> FALSE]

----------------------------------------------------------------------------
(* The state machine *)

NotCalled == [called |-> FALSE, tokens |-> <<>>, error |-> NoError]

\* no direct call on a LocationTracker or of the Range constructor yet
NoCall ==
  [op |-> "none", args |-> <<>>, before |-> LocationTracker,
   error |-> NoError, returned |-> <<>>]

InitAt(at) ==
  /\ pc = at
  /\ state = createState
  /\ value = <<>>
  /\ processed = <<>>
  /\ tokens = <<>>
  /\ error = NoError
  /\ result = NotCalled
  /\ compressed = [called |-> FALSE, tokens |-> <<>>, threw |-> FALSE]
  /\ cpc = "open"
  /\ cstate = [lastToken |-> NoToken]
  /\ consumed = 0
  /\ produced = <<>>
  /\ output = <<>>
  /\ concatenated = [called |-> FALSE, token |-> NoToken, threw |-> FALSE]
  /\ dtracker = LocationTracker
  /\ dsnapshot = snapshot(LocationTracker)
  /\ call = NoCall
  /\ sessions = <<>>
  /\ heap = <<>>

Init == InitAt("new")

compressorVars == <<cpc, cstate, consumed, produced, output, concatenated>>

\* TokenizerStreamTransformer.start()
Start ==
  /\ pc = "new"
  /\ pc' = "started"
  /\ state' = createState
  /\ UNCHANGED <<value, processed, tokens, error, result, compressed,
                 compressorVars>>
  /\ UNCHANGED otherVars

\* TokenizerStreamTransformer.transform(chunk, controller): the tokens of the
\* chunk are enqueued; an error thrown by tokenizeChunk errors the stream
Transform(chunk) ==
  /\ pc = "started"
  /\ LET r == tokenizeChunk(state, chunk)
     IN  /\ state' = r.state
         /\ tokens' = tokens \o r.tokens
         /\ error' = r.error
         /\ pc' = IF r.error = NoError THEN "started" ELSE "errored"
  /\ value' = value \o chunk
  /\ processed' = processed \o characters(chunk)
  /\ UNCHANGED <<result, compressed, compressorVars>>
  /\ UNCHANGED otherVars

\* flush whose catch block drops the error, so that the stream closes normally
FlushDroppingError ==
  /\ pc = "started"
  /\ LET r == flushState(state, <<>>)
     IN  /\ state' = r.state
         /\ error' = NoError
         /\ pc' = "flushed"
         /\ tokens' = tokens \o r.returned
  /\ UNCHANGED <<value, processed, result, compressed, compressorVars>>
  /\ UNCHANGED otherVars

\* TokenizerStreamTransformer.flush(controller): flushState(state) on a fresh
\* array; the returned token, if any, is enqueued, an error errors the stream
Flush ==
  /\ pc = "started"
  /\ LET r == flushState(state, <<>>)
     IN  /\ state' = r.state
         /\ error' = r.error
         /\ pc' = IF r.error = NoError THEN "flushed" ELSE "errored"
         /\ tokens' = tokens \o r.returned
  /\ UNCHANGED <<value, processed, result, compressed, compressorVars>>
  /\ UNCHANGED otherVars

\* a caller tokenizes the text written so far in one call: tokenize(value)
CallTokenize ==
  /\ pc \in {"flushed", "errored"}
  /\ ~result.called
  /\ LET r == tokenize(value)
     IN  result' = [called |-> TRUE, tokens |-> r.tokens, error |-> r.error]
  /\ UNCHANGED <<pc, state, value, processed, tokens, error, compressed,
                 compressorVars>>
  /\ UNCHANGED otherVars

\* the caller compresses what tokenize returned: compressTokens(tokenize(value))
CallCompressTokens ==
  /\ result.called
  /\ result.error = NoError
  /\ ~compressed.called
  /\ LET r == compressTokens(result.tokens)
     IN  compressed' = [called |-> TRUE, tokens |-> r.tokens, threw |-> r.threw]
  /\ UNCHANGED <<pc, state, value, processed, tokens, error, result,
                 compressorVars>>
  /\ UNCHANGED otherVars

\* processToken(state, token) and the enqueueing of what it returns
ProcessToken(token) ==
  /\ cpc = "open"
  /\ LET r == processToken(cstate, token)
     IN  /\ cstate' = r.state
         /\ produced' = r.tokens
         /\ output' = output \o r.tokens
         /\ cpc' = IF r.threw THEN "errored" ELSE "open"
  /\ consumed' = consumed + 1
  /\ UNCHANGED concatenated
  /\ UNCHANGED otherVars

\* TokenCompressorStreamTransformer.transform(chunk, controller) on the next
\* token of the tokenizer's output
CompressorTransform ==
  /\ consumed < Len(tokens)
  /\ ProcessToken(tokens[consumed + 1])
  /\ UNCHANGED <<pc, state, value, processed, tokens, error, result,
                 compressed>>

\* TokenCompressorStreamTransformer.flush(controller), once the source has
\* closed and every token has been taken
CompressorFlush ==
  /\ cpc = "open"
  /\ pc = "flushed"
  /\ consumed = Len(tokens)
  /\ LET r == compressorFlushState(cstate)
     IN  /\ cstate' = r.state
         /\ produced' = r.tokens
         /\ output' = output \o r.tokens
  /\ cpc' = "flushed"
  /\ UNCHANGED <<pc, state, value, processed, tokens, error, result,
                 compressed, consumed, concatenated>>
  /\ UNCHANGED otherVars

\* the writer writes any chunk
Write ==
  \E chunk \in SeqsUpTo(Chars, MaxChunk) \ {<<>>} :
    /\ Len(value) + Len(chunk) <= MaxLen
    /\ Transform(chunk)

----------------------------------------------------------------------------
(* The documented examples *)

\* examples/tokenization.ts: Hello \{world} How are you, {firstName{}}?
Example1 ==
  <<"H", "e", "l", "l", "o", " ", "\\", "{", "w", "o", "r", "l", "d", "}",
    " ", "H", "o", "w", " ", "a", "r", "e", " ", "y", "o", "u", ",", " ",
    "{", "f", "i", "r", "s", "t", "N", "a", "m", "e", "{", "}", "}", "?">>

Example2 ==
  <<"f", "o", "o", "\\", "b", "a", "r", "\\", "b", "a", "z", "{", "}",
    "\\", "{", "m", "o", "n", "d", "a", "y", "{", "t", "u", "e", "s", "d",
    "a", "y", "}", "}", "{", "f", "o", "o", "}", "{", "b", "a", "r", "}">>

\* "{a{b}c}", "foo{bar" and "foo\"
Example3 == <<"{", "a", "{", "b", "}", "c", "}">>

Example4 == <<"f", "o", "o", "{", "b", "a", "r">>

Example5 == <<"f", "o", "o", "\\">>

Examples == {Example1, Example2, Example3, Example4, Example5}

\* the writer writes the next chunk of one of the examples
WriteExample ==
  \E ex \in Examples, k \in 1..MaxChunk :
    /\ Len(value) + k <= Len(ex)
    /\ SubSeq(ex, 1, Len(value)) = value
    /\ Transform(SubSeq(ex, Len(value) + 1, Len(value) + k))

\* the tokenizer fed in chunks, and the same text tokenized and compressed in
\* one call
Next ==
  \/ Start
  \/ Write
  \/ WriteExample
  \/ Flush
  \/ CallTokenize
  \/ CallCompressTokens

Spec == Init /\ [][Next]_vars

\* TokenizerStream piped through TokenCompressorStream
NextPipeline ==
  \/ Start
  \/ Write
  \/ WriteExample
  \/ Flush
  \/ CompressorTransform
  \/ CompressorFlush

SpecPipeline == Init /\ [][NextPipeline]_vars

----------------------------------------------------------------------------
(* The compressor fed by any source of tokens *)

\* a token over [s, e), on one line; its text is named after where it starts
TokenAt(type, s, e) ==
  Token(type, <<(<<"a", "b", "c", "d", "e", "f">>)[(s % 6) + 1]>>,
        RangeWithLocation(s, e, Location(1, s), Location(1, e)))

\* the tokens a source may hand over: every Range that exists has start <= end
AnyTokens ==
  {TokenAt(type, s, e) : type \in {Literal, Interpolation},
                         s \in 0..MaxOffset, e \in 0..MaxOffset}
    \ {t \in {TokenAt(type, s, e) : type \in {Literal, Interpolation},
                                    s \in 0..MaxOffset, e \in 0..MaxOffset} :
         RangeThrows(t.range.start, t.range.end)}

InitCompressor == InitAt("source")

\* a caller hands the compressor one more token: processToken(state, token)
Offer ==
  \E token \in AnyTokens :
    /\ pc = "source"
    /\ Len(tokens) < MaxTokens
    /\ tokens' = Append(tokens, token)
    /\ ProcessToken(token)
    /\ UNCHANGED <<pc, state, value, processed, error, result, compressed>>

\* the source ends
SourceClose ==
  /\ pc = "source"
  /\ pc' = "flushed"
  /\ UNCHANGED <<state, value, processed, tokens, error, result, compressed,
                 compressorVars>>
  /\ UNCHANGED otherVars

\* a caller compresses the whole sequence in one call: compressTokens(tokens)
CompressSource ==
  /\ pc = "flushed"
  /\ ~compressed.called
  /\ LET r == compressTokens(tokens)
     IN  compressed' = [called |-> TRUE, tokens |-> r.tokens, threw |-> r.threw]
  /\ UNCHANGED <<pc, state, value, processed, tokens, error, result,
                 compressorVars>>
  /\ UNCHANGED otherVars

NextCompressor ==
  \/ Offer
  \/ SourceClose
  \/ CompressSource
  \/ CompressorFlush

SpecCompressor == InitCompressor /\ [][NextCompressor]_vars

----------------------------------------------------------------------------
(* Token.concat called directly *)

InitConcat == InitAt("caller")

\* a caller concatenates any two tokens: this.concat(other); `tokens` holds
\* the two operands
CallConcat ==
  \E this \in AnyTokens, other \in AnyTokens :
    /\ pc = "caller"
    /\ ~concatenated.called
    /\ tokens' = <<this, other>>
    /\ concatenated' =
         IF concatThrows(this, other)
         THEN [called |-> TRUE, token |-> NoToken, threw |-> TRUE]
         ELSE [called |-> TRUE, token |-> <<concat(this, other)>>,
               threw |-> FALSE]
    /\ UNCHANGED <<pc, state, value, processed, error, result, compressed,
                   cpc, cstate, consumed, produced, output>>
    /\ UNCHANGED otherVars

NextConcat == CallConcat

SpecConcat == InitConcat /\ [][NextConcat]_vars

----------------------------------------------------------------------------
(* LocationTracker and Range used directly *)

InitCommon == InitAt("common")

\* the arguments a caller passes: none, or one number
Increments == {<<>>} \cup {<<n>> : n \in (-1)..MaxIncrement}

\* the other variables stay as they are while common.ts is used directly
CommonFrame ==
  UNCHANGED <<pc, state, value, processed, tokens, error, result, compressed,
              compressorVars, sessions, heap>>

\* tracker.column(n): `before` keeps the dtracker as it was, `returned` the
\* new offset
CallColumn ==
  \E args \in Increments :
    LET n == increment(args)
    IN  /\ pc = "common"
        /\ dtracker.offset + n <= MaxPosition
        /\ dtracker' = column(dtracker, n)
        /\ call' = [op |-> "column", args |-> args, before |-> dtracker,
                    error |-> columnError(n),
                    returned |-> IF columnError(n) = NoError
                                 THEN <<column(dtracker, n).offset>>
                                 ELSE <<>>]
        /\ UNCHANGED dsnapshot
        /\ CommonFrame

\* tracker.line(n)
CallLine ==
  \E args \in Increments :
    LET n == increment(args)
    IN  /\ pc = "common"
        /\ dtracker.offset + n <= MaxPosition
        /\ dtracker' = line(dtracker, n)
        /\ call' = [op |-> "line", args |-> args, before |-> dtracker,
                    error |-> lineError(n),
                    returned |-> IF lineError(n) = NoError
                                 THEN <<line(dtracker, n).offset>>
                                 ELSE <<>>]
        /\ UNCHANGED dsnapshot
        /\ CommonFrame

\* tracker.offset(n)
CallOffset ==
  \E args \in Increments :
    LET n == increment(args)
    IN  /\ pc = "common"
        /\ dtracker.offset + n <= MaxPosition
        /\ dtracker' = offset(dtracker, n)
        /\ call' = [op |-> "offset", args |-> args, before |-> dtracker,
                    error |-> offsetError(n),
                    returned |-> IF offsetError(n) = NoError
                                 THEN <<offset(dtracker, n).offset>>
                                 ELSE <<>>]
        /\ UNCHANGED dsnapshot
        /\ CommonFrame

\* snapshot = tracker.snapshot()
TakeSnapshot ==
  /\ pc = "common"
  /\ dsnapshot' = snapshot(dtracker)
  /\ call' = [op |-> "snapshot", args |-> <<>>, before |-> dtracker,
              error |-> NoError, returned |-> <<snapshot(dtracker)>>]
  /\ UNCHANGED dtracker
  /\ CommonFrame

\* tracker.complete(snapshot)
CallComplete ==
  /\ pc = "common"
  /\ call' = [op |-> "complete", args |-> <<>>, before |-> dtracker,
              error |-> completeError(dsnapshot, snapshot(dtracker)),
              returned |->
                IF completeError(dsnapshot, snapshot(dtracker)) = NoError
                THEN <<trackerComplete(dtracker, dsnapshot)>>
                ELSE <<>>]
  /\ UNCHANGED <<dtracker, dsnapshot>>
  /\ CommonFrame

\* new Range(start, end)
NewRange ==
  \E start \in (-1)..MaxOffset, end \in (-1)..MaxOffset :
    /\ pc = "common"
    /\ call' = [op |-> "Range", args |-> <<start, end>>, before |-> dtracker,
                error |-> RangeError(start, end),
                returned |-> IF RangeError(start, end) = NoError
                             THEN <<Range(start, end)>>
                             ELSE <<>>]
    /\ UNCHANGED <<dtracker, dsnapshot>>
    /\ CommonFrame

NextCommon ==
  \/ CallColumn
  \/ CallLine
  \/ CallOffset
  \/ TakeSnapshot
  \/ CallComplete
  \/ NewRange

SpecCommon == InitCommon /\ [][NextCommon]_vars

----------------------------------------------------------------------------
(* Tokenization sessions side by side *)

\* a LocationTracker is an object the state refers to: the heap holds the
\* trackers, a reference is an index into it

\* one tracker made once and handed to every state
sharedLocationTracker(h) ==
  IF h = <<>> THEN [heap |-> <<LocationTracker>>, ref |-> 1]
  ELSE [heap |-> h, ref |-> 1]

\* `new LocationTracker()` in createState: a new object on the heap
newLocationTracker(h) ==
  [heap |-> Append(h, LocationTracker), ref |-> Len(h) + 1]

\* the state of a session as processCharacter sees it: state.locationTracker
\* is the tracker the state refers to
SessionState(session, h) ==
  [session.state EXCEPT !.locationTracker = h[session.ref]]

InitSessions == InitAt("sessions")

\* the characters the sessions are fed
SessionChars == {<<"a">>, <<"\\">>, <<"{">>, <<"}">>, <<"\n">>}

\* a session begins: createState(), its snapshot taken from its tracker
CreateSession ==
  /\ pc = "sessions"
  /\ Len(sessions) < MaxSessions
  /\ LET made == newLocationTracker(heap)
     IN  /\ heap' = made.heap
         /\ sessions' =
              Append(sessions,
                     [ref   |-> made.ref,
                      state |-> [createState EXCEPT
                                   !.locationTracker = made.heap[made.ref],
                                   !.locationSnapshot =
                                     snapshot(made.heap[made.ref])],
                      tokens |-> <<>>,
                      processed |-> <<>>])
  /\ UNCHANGED <<pc, state, value, processed, tokens, error, result,
                 compressed, compressorVars, dtracker, dsnapshot, call>>

\* one session processes one more character: processCharacter(state,
\* character, tokens) on that session's state
SessionStep ==
  \E i \in 1..Len(sessions), character \in SessionChars :
    /\ pc = "sessions"
    /\ Len(sessions[i].processed) < MaxSessionLen
    /\ LET r == processCharacter(SessionState(sessions[i], heap), character,
                                 <<>>)
       IN  /\ heap' = [heap EXCEPT ![sessions[i].ref] =
                                     r.state.locationTracker]
           /\ sessions' =
                [sessions EXCEPT
                   ![i] = [ref   |-> @.ref,
                           state |-> r.state,
                           tokens |-> @.tokens \o r.tokens,
                           processed |-> Append(@.processed, character)]]
    /\ UNCHANGED <<pc, state, value, processed, tokens, error, result,
                   compressed, compressorVars, dtracker, dsnapshot, call>>

NextSessions ==
  \/ CreateSession
  \/ SessionStep

SpecSessions == InitSessions /\ [][NextSessions]_vars

----------------------------------------------------------------------------
(* flushState called on the array a caller has been collecting tokens in *)

\* quote characters, which the tokenizer treats as any other character
Quotes == {<<"'">>, <<"\"">>}

InitFlushState ==
  /\ InitAt("collecting")
  /\ state = createState

\* the caller's loop: processCharacter(state, char, tokens) pushes to the
\* caller's array
CollectCharacter ==
  \E character \in
       {characters(str)[1] : str \in SeqsUpTo(Chars, 2) \ {<<>>}} \cup Quotes :
    /\ pc = "collecting"
    /\ Len(processed) < MaxLen
    /\ LET r == processCharacter(state, character, tokens)
       IN  /\ state' = r.state
           /\ tokens' = r.tokens
    /\ processed' = Append(processed, character)
    /\ UNCHANGED <<pc, value, error, result, compressed, compressorVars,
                   dtracker, dsnapshot, call, sessions, heap>>

\* flushState(state, tokens) on that array: what it returns or throws is
\* recorded with the state and the array it was handed
CallFlushState ==
  /\ pc = "collecting"
  /\ LET r == flushState(state, tokens)
     IN  /\ state' = r.state
         /\ tokens' = r.tokens
         /\ call' = [op |-> "flushState", args |-> <<state, tokens>>,
                     before |-> state.locationTracker,
                     error |-> r.error, returned |-> r.returned]
  /\ pc' = "flushState called"
  /\ UNCHANGED <<value, processed, error, result, compressed, compressorVars,
                 dtracker, dsnapshot, sessions, heap>>

NextFlushState ==
  \/ CollectCharacter
  \/ CallFlushState

SpecFlushState == InitFlushState /\ [][NextFlushState]_vars

----------------------------------------------------------------------------
(* TokenizerStreamTransformer with its methods called directly, in any order *)

AlreadyStarted == "TokenizerStreamTransformer has already been started"

NotStarted == "TokenizerStreamTransformer has not been started"

\* this.#state is undefined until start has assigned it
stateUndefined == pc = "constructed"

\* what a call finds: kept in the record of the call
Found == [pc |-> pc, state |-> state, tokens |-> tokens,
          processed |-> processed, error |-> error]

InitTransformer == InitAt("constructed")

\* the code units of the chunks handed to transform
TransformerChars == {"a", "\\", "{", "}"}

TransformerFrame ==
  UNCHANGED <<value, result, compressed, compressorVars, dtracker, dsnapshot,
              sessions, heap>>

\* start() that assigns a new state whether or not one is there
TransformerStartUnchecked ==
  /\ pc \in {"constructed", "running"}
  /\ call' = [op |-> "start", args |-> <<>>, before |-> Found,
              error |-> NoError, returned |-> <<>>]
  /\ pc' = "running"
  /\ state' = createState
  /\ UNCHANGED <<tokens, processed, error>>
  /\ TransformerFrame

\* start()
TransformerStart ==
  /\ pc \in {"constructed", "running"}
  /\ IF ~stateUndefined
     THEN /\ call' = [op |-> "start", args |-> <<>>, before |-> Found,
                      error |-> AlreadyStarted, returned |-> <<>>]
          /\ UNCHANGED <<pc, state, tokens, processed, error>>
     ELSE /\ call' = [op |-> "start", args |-> <<>>, before |-> Found,
                      error |-> NoError, returned |-> <<>>]
          /\ pc' = "running"
          /\ state' = createState
          /\ UNCHANGED <<tokens, processed, error>>
  /\ TransformerFrame

\* transform(chunk, controller)
TransformerTransform ==
  \E chunk \in SeqsUpTo(TransformerChars, MaxChunk) \ {<<>>} :
    /\ pc \in {"constructed", "running"}
    /\ Len(processed) + Len(chunk) <= MaxLen
    /\ IF stateUndefined
       THEN /\ call' = [op |-> "transform", args |-> <<chunk>>,
                        before |-> Found, error |-> NotStarted,
                        returned |-> <<>>]
            /\ UNCHANGED <<pc, state, tokens, processed, error>>
       ELSE LET r == tokenizeChunk(state, chunk)
            IN  /\ call' = [op |-> "transform", args |-> <<chunk>>,
                            before |-> Found, error |-> NoError,
                            returned |-> <<>>]
                /\ state' = r.state
                /\ tokens' = tokens \o r.tokens
                /\ error' = r.error
                /\ pc' = IF r.error = NoError THEN "running"
                         ELSE "controller errored"
                /\ processed' = processed \o characters(chunk)
    /\ TransformerFrame

\* flush(controller)
TransformerFlush ==
  /\ pc \in {"constructed", "running"}
  /\ IF stateUndefined
     THEN /\ call' = [op |-> "flush", args |-> <<>>, before |-> Found,
                      error |-> NotStarted, returned |-> <<>>]
          /\ UNCHANGED <<pc, state, tokens, processed, error>>
     ELSE LET r == flushState(state, <<>>)
          IN  /\ call' = [op |-> "flush", args |-> <<>>, before |-> Found,
                          error |-> NoError, returned |-> <<>>]
              /\ state' = r.state
              /\ tokens' = tokens \o r.returned
              /\ error' = r.error
              /\ pc' = IF r.error = NoError THEN "flush done"
                       ELSE "controller errored"
              /\ UNCHANGED processed
  /\ TransformerFrame

\* start() called once more after flush or after the controller was errored
TransformerStartLate ==
  /\ pc \in {"flush done", "controller errored"}
  /\ call' = [op |-> "start", args |-> <<>>, before |-> Found,
              error |-> AlreadyStarted, returned |-> <<>>]
  /\ UNCHANGED <<pc, state, tokens, processed, error>>
  /\ TransformerFrame

NextTransformer ==
  \/ TransformerStart
  \/ TransformerTransform
  \/ TransformerFlush
  \/ TransformerStartLate

SpecTransformer == InitTransformer /\ [][NextTransformer]_vars

----------------------------------------------------------------------------
(* LocationSnapshot.complete called on any two snapshots *)

\* largest line and column such a snapshot is made with
MaxLine == 2

MaxColumn == 1

\* new LocationSnapshot(offset, line, column): the constructor checks nothing
Snapshots ==
  {LocationSnapshot(o, l, c) :
     o \in (-1)..MaxPosition, l \in 0..MaxLine, c \in (-1)..MaxColumn}

InitSnapshots == InitAt("snapshots")

\* this.complete(other)
CallSnapshotComplete ==
  \E this \in Snapshots, other \in Snapshots :
    /\ pc = "snapshots"
    /\ call' = [op |-> "LocationSnapshot.complete", args |-> <<this, other>>,
                before |-> dtracker,
                error |-> completeError(this, other),
                returned |-> IF completeError(this, other) = NoError
                             THEN <<complete(this, other)>>
                             ELSE <<>>]
    /\ pc' = "snapshots completed"
    /\ UNCHANGED <<dtracker, dsnapshot, state, value, processed, tokens,
                   error, result, compressed, compressorVars, sessions,
                   heap>>

NextSnapshots == CallSnapshotComplete

SpecSnapshots == InitSnapshots /\ [][NextSnapshots]_vars

----------------------------------------------------------------------------
(* Helpers of the properties *)

Last(seq) == seq[Len(seq)]

\* number of occurrences of x in the sequence
Count(seq, x) == Cardinality({i \in 1..Len(seq) : seq[i] = x})

\* index of the last x of the sequence, 0 when it has none
LastIndexOf(seq, x) ==
  IF \E i \in 1..Len(seq) : seq[i] = x
  THEN CHOOSE i \in 1..Len(seq) :
         seq[i] = x /\ \A j \in (i + 1)..Len(seq) : seq[j] # x
  ELSE 0

\* a step that hands exactly one character to processCharacter
OneCharacterStep ==
  /\ pc = "started"
  /\ Len(processed') = Len(processed) + 1
  /\ SubSeq(processed', 1, Len(processed)) = processed

\* the tokens of ts as (type, value) pairs
TypesAndValues(ts) == [i \in 1..Len(ts) |-> <<ts[i].type, ts[i].value>>]

\* each token starts at or after the end of the token before it
InSourceOrder(ts) ==
  \A i \in 2..Len(ts) : ts[i].range.start >= ts[i - 1].range.end

IsInterpolation(t) == t.type = Interpolation

\* the Interpolation tokens of ts, in order
Interpolations(ts) == SelectSeq(ts, IsInterpolation)

\* a step in which the compressor takes one more token of its input
TakesToken == consumed' = consumed + 1

\* x is one of the elements of seq
Contains(seq, x) == \E i \in 1..Len(seq) : seq[i] = x

\* the values of the tokens of ts, joined in order
RECURSIVE JoinedValues(_)
JoinedValues(ts) ==
  IF ts = <<>> THEN <<>> ELSE Head(ts).value \o JoinedValues(Tail(ts))

\* the code units of a sequence of characters, in order
RECURSIVE Flatten(_)
Flatten(chars) ==
  IF chars = <<>> THEN <<>> ELSE Head(chars) \o Flatten(Tail(chars))

----------------------------------------------------------------------------
(* Properties *)

\* as many `{` as `}`, and no prefix with more `}` than `{`
Balanced(str) ==
  /\ Count(str, "{") = Count(str, "}")
  /\ \A k \in 1..Len(str) :
       Count(SubSeq(str, 1, k), "}") <= Count(SubSeq(str, 1, k), "{")

\* the ranges of the tokens tile the source from its beginning
Tiles(toks) ==
  \A i \in 1..Len(toks) :
    IF i = 1
    THEN /\ toks[i].range.start = 0
         /\ toks[i].range.startLocation = Location(1, 0)
    ELSE /\ toks[i].range.start = toks[i - 1].range.end
         /\ toks[i].range.startLocation = toks[i - 1].range.endLocation

\* C1: for every input and every way of splitting it into chunks, the chunks
\* fed to tokenizeChunk on one state followed by flushState give the outcome of
\* tokenize on the whole input: the same error, or else the same tokens
\* (types, values, ranges and locations).
C1_ChunkEquivalence ==
  result.called =>
    /\ result.error = error
    /\ error = NoError => result.tokens = tokens

\* (C1, the part that holds) when no chunk boundary fell inside a surrogate
\* pair, so that the chunks handed over the characters of the whole input,
\* the two outcomes are the same.
C1_EquivalentAtCharacterBoundaries ==
  (result.called /\ processed = characters(value)) =>
    /\ result.error = error
    /\ error = NoError => result.tokens = tokens

\* C2: the unterminated-input errors are raised at finalization only:
\* flushState fails with the escape error exactly in Escape mode and with the
\* interpolation error exactly in Interpolation mode, processCharacter raises
\* for no character in any reachable state, and tokenize("foo{bar") and
\* tokenize("foo\") fail with the respective error.
C2_UnterminatedOnlyAtEnd ==
  /\ pc = "started" =>
       /\ error = NoError
       /\ \A c \in {<<u>> : u \in Chars} \cup {<<HighSurrogate, LowSurrogate>>} :
            processCharacter(state, c, <<>>).error = NoError
  /\ pc = "flushed" => state.type = ModeLiteral /\ error = NoError
  /\ pc = "errored" =>
       \/ state.type = ModeEscape /\ error = EscapeError
       \/ state.type = ModeInterpolation /\ error = InterpolationError
  /\ result.called =>
       result.error = CASE state.type = ModeEscape -> EscapeError
                        [] state.type = ModeInterpolation -> InterpolationError
                        [] OTHER -> NoError
  /\ result.called /\ value = Example4 => result.error = InterpolationError
  /\ result.called /\ value = Example5 => result.error = EscapeError

\* "foo{bar" was written, the stream was closed and tokenize was called on it
C2_Witness ==
  /\ value = Example4
  /\ pc = "errored"
  /\ error = InterpolationError
  /\ result.called
  /\ result.error = InterpolationError

\* C3: when the machine is in Literal mode at the end of the input,
\* finalization raises nothing and emits exactly one final Literal token
\* holding the buffer when the buffer is non-empty and nothing when it is
\* empty, and tokenize on that input does not throw.
C3_LiteralFinalization ==
  /\ [][(pc = "started" /\ pc' # "started" /\ value' = value
           /\ state.type = ModeLiteral) =>
          /\ pc' = "flushed"
          /\ error' = NoError
          /\ IF state.buffer # <<>>
             THEN /\ Len(tokens') = Len(tokens) + 1
                  /\ SubSeq(tokens', 1, Len(tokens)) = tokens
                  /\ Last(tokens').type = Literal
                  /\ Last(tokens').value = state.buffer
             ELSE tokens' = tokens]_vars
  /\ [](result.called /\ state.type = ModeLiteral =>
          /\ result.error = NoError
          /\ pc = "flushed")

\* "aa" was finalized into its one Literal token, and tokenize agreed
C3_Witness ==
  /\ value = <<"a", "a">>
  /\ pc = "flushed"
  /\ Len(tokens) = 1
  /\ tokens[1].type = Literal
  /\ tokens[1].value = <<"a", "a">>
  /\ result.called
  /\ result.error = NoError

C5_BraceNesting ==
  /\ [](state.type = ModeInterpolation =>
          LET open == Len(value) - Len(state.buffer)
          IN  /\ open >= 1
              /\ value[open] = "{"
              /\ state.buffer = SubSeq(value, open + 1, Len(value))
              /\ state.n = Num(1 + Count(state.buffer, "{")
                                 - Count(state.buffer, "}")))
  /\ [][(OneCharacterStep /\ state.type = ModeInterpolation) =>
          LET c == Last(processed')
          IN  CASE c = <<"{">> ->
                     /\ state'.type = ModeInterpolation
                     /\ state'.n = Num(state.n[1] + 1)
                     /\ state'.buffer = state.buffer \o c
                     /\ tokens' = tokens
                [] c = <<"}">> /\ state.n[1] > 1 ->
                     /\ state'.type = ModeInterpolation
                     /\ state'.n = Num(state.n[1] - 1)
                     /\ state'.buffer = state.buffer \o c
                     /\ tokens' = tokens
                [] c = <<"}">> /\ state.n[1] = 1 ->
                     /\ state'.type = ModeLiteral
                     /\ tokens' = IF state.buffer = <<>> THEN tokens
                                  ELSE Append(tokens, Last(tokens'))
                     /\ state.buffer # <<>> =>
                          /\ Last(tokens').type = Interpolation
                          /\ Last(tokens').value = state.buffer
                [] OTHER ->
                     /\ state'.type = ModeInterpolation
                     /\ state'.n = state.n
                     /\ tokens' = tokens]_vars
  /\ [](result.called /\ value = Example3 =>
          TypesAndValues(result.tokens) =
            <<<<Interpolation, <<"a", "{", "b", "}", "c">>>>>>)

\* "{a{b}c}" was tokenized
C5_Witness ==
  /\ value = Example3
  /\ result.called
  /\ Len(result.tokens) = 1
  /\ result.tokens[1].value = <<"a", "{", "b", "}", "c">>

\* C6: in Literal mode a \ flushes the buffer as a Literal token only if it is
\* non-empty and switches to Escape; a { flushes the buffer likewise and
\* switches to Interpolation with depth 1 and an empty buffer; every other
\* character, } included, is appended to the buffer, emits no token and leaves
\* the mode and the last-flush snapshot unchanged.
C6_LiteralStep ==
  [][(OneCharacterStep /\ state.type = ModeLiteral) =>
       LET c == Last(processed')
       IN  IF c = <<"\\">> \/ c = <<"{">>
           THEN /\ IF state.buffer # <<>>
                   THEN /\ Len(tokens') = Len(tokens) + 1
                        /\ SubSeq(tokens', 1, Len(tokens)) = tokens
                        /\ Last(tokens').type = Literal
                        /\ Last(tokens').value = state.buffer
                   ELSE tokens' = tokens
                /\ c = <<"\\">> => state'.type = ModeEscape
                /\ c = <<"{">> => /\ state'.type = ModeInterpolation
                                  /\ state'.n = Num(1)
                                  /\ state'.buffer = <<>>
           ELSE /\ state'.buffer = state.buffer \o c
                /\ tokens' = tokens
                /\ state'.type = ModeLiteral
                /\ state'.locationSnapshot = state.locationSnapshot]_vars

\* "a}" was buffered in Literal mode and flushed by the { that followed
C6_Witness ==
  /\ value = <<"a", "}", "{">>
  /\ state.type = ModeInterpolation
  /\ Len(tokens) = 1
  /\ tokens[1].value = <<"a", "}">>

\* C7: whatever the modes the characters were read in, after processing them
\* from a fresh state the tracker's offset is the number of characters, its
\* line is 1 plus the number of newlines, and its column is the number of
\* characters other than \r and \n since the last newline (or the start).
C7_PositionTracking ==
  LET tracker == state.locationTracker
  IN  /\ tracker.offset = Len(processed)
      /\ tracker.line = 1 + Count(processed, <<"\n">>)
      /\ tracker.column =
           Cardinality({i \in (LastIndexOf(processed, <<"\n">>) + 1)
                                ..Len(processed) :
                          processed[i] # <<"\r">> /\ processed[i] # <<"\n">>})

\* a newline read in Escape mode, then a carriage return read in Interpolation
\* mode
C7_Witness ==
  /\ processed = <<<<"\\">>, <<"\n">>, <<"{">>, <<"\r">>>>
  /\ state.type = ModeInterpolation
  /\ state.locationTracker = [offset |-> 4, line |-> 2, column |-> 1]

\* C8: in the output of tokenize, and in the output of compressTokens on it,
\* every token starts at or after the end of the token emitted before it.
C8_SourceOrder ==
  /\ InSourceOrder(tokens)
  /\ result.called => InSourceOrder(result.tokens)
  /\ compressed.called => InSourceOrder(compressed.tokens)

\* tokenize returned several tokens and compressTokens merged some of them
C8_Witness ==
  /\ compressed.called
  /\ Len(compressed.tokens) >= 2
  /\ Len(result.tokens) > Len(compressed.tokens)

\* C9: compressTokens(tokenize("Hello \{world} How are you, {firstName{}}?"))
\* is exactly [Literal "Hello {world} How are you, ",
\* Interpolation "firstName{}", Literal "?"].
C9_CompressedExample ==
  (compressed.called /\ value = Example1) =>
    /\ ~compressed.threw
    /\ TypesAndValues(compressed.tokens) =
         << <<Literal, SubSeq(Example1, 1, 6) \o SubSeq(Example1, 8, 28)>>,
            <<Interpolation, SubSeq(Example1, 30, 40)>>,
            <<Literal, <<"?">>>> >>

\* the example was tokenized and compressed
C9_Witness ==
  /\ value = Example1
  /\ compressed.called
  /\ Len(compressed.tokens) = 3

\* C10: when the compressor holds a pending token and the incoming token has
\* the same type and starts where the pending one ends, the incoming token is
\* consumed without emission and the pending token becomes the concatenation
\* (the values joined, the range from the pending start to the incoming end);
\* when the incoming token differs in type or is not contiguous, the pending
\* token is emitted first.
C10_MergeRule ==
  [][(consumed' = consumed + 1 /\ cstate.lastToken # NoToken) =>
       LET pending  == cstate.lastToken[1]
           incoming == tokens'[consumed + 1]
       IN  IF /\ pending.type = incoming.type
              /\ incoming.range.start = pending.range.end
           THEN /\ produced' = <<>>
                /\ output' = output
                /\ cstate'.lastToken =
                     << [type  |-> pending.type,
                         value |-> pending.value \o incoming.value,
                         range |-> [start |-> pending.range.start,
                                    end   |-> incoming.range.end,
                                    startLocation |->
                                      pending.range.startLocation,
                                    endLocation |->
                                      incoming.range.endLocation]] >>
           ELSE /\ produced' # <<>>
                /\ produced'[1] = pending
                /\ output' = Append(output, pending) \o Tail(produced')]_vars

\* two contiguous Literal tokens were merged into one pending token, and
\* nothing was emitted
C10_Witness ==
  /\ pc \in {"source", "flushed"}
  /\ consumed = 2
  /\ output = <<>>
  /\ cstate.lastToken # NoToken
  /\ cstate.lastToken[1].value = <<"a", "b">>
  /\ cstate.lastToken[1].range.start = 0
  /\ cstate.lastToken[1].range.end = 2

\* C11: Interpolation tokens are never merged: the Interpolation tokens in
\* the output of compressTokens are those of the input (same count, order,
\* values and ranges), also when two of them are adjacent and contiguous; the
\* same holds of what the stream has enqueued for the tokens it was handed.
C11_InterpolationsKept ==
  /\ Interpolations(output) = Interpolations(tokens)
  /\ compressed.called =>
       Interpolations(compressed.tokens) = Interpolations(tokens)

\* two Interpolation tokens, the second starting where the first ends, went
\* through compressTokens
C11_Witness ==
  /\ compressed.called
  /\ \E i \in 1..(Len(tokens) - 1) :
       /\ tokens[i].type = Interpolation
       /\ tokens[i + 1].type = Interpolation
       /\ tokens[i].range.start < tokens[i].range.end
       /\ tokens[i].range.end = tokens[i + 1].range.start
  /\ Len(Interpolations(compressed.tokens)) >= 2

\* C12 (as stated): the pending token, whenever one is held, is a Literal; an
\* incoming Interpolation token is always among the tokens returned by the
\* call of processToken that receives it, after the flushed pending token if
\* there was one; an incoming Literal token is never among the tokens returned
\* by the call that receives it.
C12_DeferralPolicy ==
  [][/\ cstate'.lastToken # NoToken => cstate'.lastToken[1].type = Literal
     /\ TakesToken =>
          LET incoming == tokens'[consumed + 1]
          IN  /\ incoming.type = Interpolation =>
                   produced' = cstate.lastToken \o <<incoming>>
              /\ incoming.type = Literal => ~Contains(produced', incoming)]_vars

\* C12 (amended): as above, except that for an incoming Literal token the call
\* returns nothing but the token that was pending before it, when that one is
\* flushed, and holds the incoming token back as the pending token or merged
\* into it; the incoming token is among the returned tokens only when it is
\* that pending token itself.
C12_DeferralPolicyAmended ==
  [][/\ cstate'.lastToken # NoToken => cstate'.lastToken[1].type = Literal
     /\ TakesToken =>
          LET incoming == tokens'[consumed + 1]
          IN  /\ incoming.type = Interpolation =>
                   produced' = cstate.lastToken \o <<incoming>>
              /\ incoming.type = Literal =>
                   /\ produced' \in {<<>>, cstate.lastToken}
                   /\ produced' = <<>> =>
                        cstate'.lastToken \in
                          {<<incoming>>} \cup
                          {<<concat(cstate.lastToken[i], incoming)>> :
                             i \in 1..Len(cstate.lastToken)}
                   /\ produced' # <<>> => cstate'.lastToken = <<incoming>>
                   /\ Contains(produced', incoming) =>
                        cstate.lastToken = <<incoming>>]_vars

\* a Literal, an Interpolation and a Literal token were taken: the first was
\* held back and returned together with the second, the third is held back
C12_Witness ==
  /\ consumed = 3
  /\ tokens[1].type = Literal
  /\ tokens[2].type = Interpolation
  /\ tokens[3].type = Literal
  /\ output = <<tokens[1], tokens[2]>>
  /\ produced = <<>>
  /\ cstate.lastToken = <<tokens[3]>>

\* C13: merging is idempotent: compressTokens applied to what compressTokens
\* returned gives the same tokens again (type, value and range), for every
\* token sequence.
C13_Idempotent ==
  compressed.called =>
    /\ ~compressed.threw
    /\ compressTokens(compressed.tokens) =
         [tokens |-> compressed.tokens, threw |-> FALSE]

\* compressTokens merged some tokens of its input and returned several
C13_Witness ==
  /\ compressed.called
  /\ Len(compressed.tokens) >= 2
  /\ Len(compressed.tokens) < Len(tokens)
  /\ compressed.tokens[1].type = Literal
  /\ compressed.tokens[2].type = Literal

\* C14: the compressor loses and duplicates nothing: once finalization has
\* emitted the pending token, the values of the output tokens joined in order
\* are the values of the input tokens joined in order, the output has at most
\* as many tokens as the input, no pending token remains and a second
\* finalization emits nothing.
C14_NothingLost ==
  /\ cpc = "flushed" =>
       /\ JoinedValues(output) = JoinedValues(tokens)
       /\ Len(output) <= Len(tokens)
       /\ cstate.lastToken = NoToken
       /\ compressorFlushState(cstate).tokens = <<>>
  /\ compressed.called =>
       /\ ~compressed.threw
       /\ JoinedValues(compressed.tokens) = JoinedValues(tokens)
       /\ Len(compressed.tokens) <= Len(tokens)

\* finalization emitted a pending token into which tokens had been merged
C14_Witness ==
  /\ cpc = "flushed"
  /\ Len(tokens) = 3
  /\ Len(output) = 2
  /\ produced # <<>>
  /\ Len(produced[1].value) = 2

\* C15: the compressor never makes Token.concat fail: for every input token
\* sequence (any types, any ranges) processToken calls concat only with a
\* pending and an incoming token of the same type where the incoming one
\* starts at the end of the pending one, so that neither processToken nor
\* compressTokens raises.
C15_ConcatNeverFails ==
  [][/\ TakesToken =>
          LET incoming == tokens'[consumed + 1]
          IN  /\ cpc' = "open"
              /\ ~processToken(cstate, incoming).threw
              /\ ( /\ cstate.lastToken # NoToken
                   /\ cstate'.lastToken # NoToken
                   /\ cstate'.lastToken # <<incoming>> ) =>
                    /\ cstate.lastToken[1].type = incoming.type
                    /\ cstate.lastToken[1].range.end = incoming.range.start
                    /\ ~concatThrows(cstate.lastToken[1], incoming)
     /\ compressed'.called => ~compressed'.threw]_vars

\* three tokens were concatenated into the pending token, and a sequence with
\* tokens that do not touch went through compressTokens
C15_Witness ==
  /\ compressed.called
  /\ ~compressed.threw
  /\ Len(tokens) = 3
  /\ tokens[1].type = tokens[2].type
  /\ tokens[2].type = tokens[3].type
  /\ tokens[1].range.end = tokens[2].range.start
  /\ tokens[2].range.end # tokens[3].range.start
  /\ Len(compressed.tokens) = 2

\* C16: Literal text separated in the source by an interpolation region, an
\* empty one included, stays in separate tokens after compression:
\* compressTokens(tokenize("foo\bar\baz{}\{monday{tuesday}}{foo}{bar}")) has
\* exactly the 6 tokens Literal "foo\bar\baz", Literal "{monday",
\* Interpolation "tuesday", Literal "}", Interpolation "foo",
\* Interpolation "bar".
C16_SeparatedLiterals ==
  (compressed.called /\ value = Example2) =>
    TypesAndValues(compressed.tokens) =
      << <<Literal, SubSeq(Example2, 1, 11)>>,
         <<Literal, SubSeq(Example2, 15, 21)>>,
         <<Interpolation, SubSeq(Example2, 23, 29)>>,
         <<Literal, <<"}">>>>,
         <<Interpolation, SubSeq(Example2, 33, 35)>>,
         <<Interpolation, SubSeq(Example2, 38, 40)>> >>

\* C17: the range of an Interpolation token covers exactly the text between
\* its braces: range.start is the offset of the first character after the
\* opening brace and range.end the offset of the closing brace; in
\* foo\bar\baz{}\{monday{tuesday}}{foo}{bar} the tokens "tuesday", "foo" and
\* "bar" have the ranges [22,29), [32,35) and [37,40).
C17_InterpolationRange ==
  (result.called /\ result.error = NoError) =>
    /\ \A i \in 1..Len(result.tokens) :
         LET t     == result.tokens[i]
             chars == characters(value)
         IN  t.type = Interpolation =>
               /\ 1 <= t.range.start
               /\ t.range.end < Len(chars)
               /\ chars[t.range.start] = <<"{">>
               /\ chars[t.range.end + 1] = <<"}">>
               /\ Flatten(SubSeq(chars, t.range.start + 1, t.range.end)) =
                    t.value
    /\ value = Example2 =>
         [i \in 1..3 |->
            LET t == Interpolations(result.tokens)[i]
            IN  <<t.range.start, t.range.end>>] =
           << <<22, 29>>, <<32, 35>>, <<37, 40>> >>

\* C18: when a non-empty Literal buffer is flushed because a backslash or an
\* opening brace is read at offset k, the range of the emitted Literal token
\* ends at k and the last-flush snapshot is left at k, so that right after
\* that character the range from the snapshot to the tracker is [k, k+1).
C18_FlushBeforeDelimiter ==
  [][( /\ OneCharacterStep
       /\ state.type = ModeLiteral
       /\ state.buffer # undefined
       /\ Len(state.buffer) > 0
       /\ Last(processed') \in {<<"\\">>, <<"{">>} ) =>
       LET k == state.locationTracker.offset
       IN  /\ Len(tokens') = Len(tokens) + 1
           /\ Last(tokens').type = Literal
           /\ Last(tokens').range.end = k
           /\ state'.locationSnapshot.offset = k
           /\ state'.locationTracker.offset = k + 1]_vars

\* C19: Token.concat on two tokens of the same type, the second starting at
\* the end of the first, returns a token of that type whose value is
\* this.value followed by other.value and whose range runs from
\* this.range.start / startLocation to other.range.end / endLocation.
C19_ConcatAdjacent ==
  ( /\ concatenated.called
    /\ tokens[1].type = tokens[2].type
    /\ tokens[1].range.end = tokens[2].range.start ) =>
    /\ ~concatenated.threw
    /\ concatenated.token =
         << [type  |-> tokens[1].type,
             value |-> tokens[1].value \o tokens[2].value,
             range |-> [start |-> tokens[1].range.start,
                        end   |-> tokens[2].range.end,
                        startLocation |-> tokens[1].range.startLocation,
                        endLocation   |-> tokens[2].range.endLocation]] >>

\* two Literal tokens over [0,1) and [1,2) were concatenated
C19_Witness ==
  /\ concatenated.called
  /\ Len(tokens) = 2
  /\ tokens[1].type = Literal
  /\ tokens[2].type = Literal
  /\ tokens[1].range.start = 0
  /\ tokens[1].range.end = 1
  /\ tokens[2].range.start = 1
  /\ tokens[2].range.end = 2
  /\ concatenated.token # NoToken
  /\ concatenated.token[1].value = <<"a", "b">>

\* C20: Token.concat fails whenever the two tokens have different types and
\* whenever this.range.end differs from other.range.start, and produces no
\* token in either case.
C20_ConcatFails ==
  ( /\ concatenated.called
    /\ \/ tokens[1].type # tokens[2].type
       \/ tokens[1].range.end # tokens[2].range.start ) =>
    /\ concatenated.threw
    /\ concatenated.token = NoToken

\* concat was called with two Literal tokens that leave a gap, [0,1) and
\* [2,2), and failed
C20_Witness ==
  /\ concatenated.called
  /\ Len(tokens) = 2
  /\ tokens[1].type = Literal
  /\ tokens[2].type = Literal
  /\ tokens[1].range.start = 0
  /\ tokens[1].range.end = 1
  /\ tokens[2].range.start = 2
  /\ concatenated.threw

\* C21: for n >= 0, column(n) adds n to offset and column and leaves the line;
\* line(n) adds n to offset and line and sets the column to 0; offset(n) adds
\* n to the offset only; each takes n = 1 when called without argument; and
\* the range completed from a snapshot at the tracker has the snapshot's
\* offset, line and column as its start and the tracker's as its end.
C21_TrackerOperations ==
  LET n == IF call.args = <<>> THEN 1 ELSE call.args[1]
      b == call.before
  IN  /\ (call.op = "column" /\ n >= 0) =>
           /\ call.error = NoError
           /\ dtracker =
                [offset |-> b.offset + n, line |-> b.line,
                 column |-> b.column + n]
      /\ (call.op = "line" /\ n >= 0) =>
           /\ call.error = NoError
           /\ dtracker =
                [offset |-> b.offset + n, line |-> b.line + n, column |-> 0]
      /\ (call.op = "offset" /\ n >= 0) =>
           /\ call.error = NoError
           /\ dtracker =
                [offset |-> b.offset + n, line |-> b.line,
                 column |-> b.column]
      /\ call.op = "complete" =>
           /\ call.error = NoError
           /\ call.returned =
                << [start |-> dsnapshot.offset,
                    end   |-> dtracker.offset,
                    startLocation |-> [line   |-> dsnapshot.line,
                                       column |-> dsnapshot.column],
                    endLocation   |-> [line   |-> dtracker.line,
                                       column |-> dtracker.column]] >>

\* a range was completed from a snapshot taken at offset 1 on line 1 to the
\* tracker at offset 3 on line 2, column 1
C21_Witness ==
  /\ call.op = "complete"
  /\ dsnapshot = [offset |-> 1, line |-> 1, column |-> 1]
  /\ dtracker = [offset |-> 3, line |-> 2, column |-> 1]
  /\ call.returned # <<>>
  /\ call.returned[1].endLocation = [line |-> 2, column |-> 1]

\* C22: column, line and offset each fail when called with n < 0 and leave
\* the tracker's offset, line and column as they were.
C22_NegativeIncrement ==
  ( /\ call.op \in {"column", "line", "offset"}
    /\ call.args # <<>>
    /\ call.args[1] < 0 ) =>
    /\ call.error # NoError
    /\ call.returned = <<>>
    /\ dtracker = call.before

\* column(-1) was called on a tracker that had been moved, and failed
C22_Witness ==
  /\ call.op = "column"
  /\ call.args = <<-1>>
  /\ call.error = "Column increment must be non-negative"
  /\ call.before.offset = 2
  /\ call.before.line = 2

\* C23: the Range constructor fails exactly when start < 0 or end < start, so
\* every Range that exists has 0 <= start <= end, and its length is
\* end - start; ranges of length zero are valid.
C23_RangeConstruction ==
  call.op = "Range" =>
    LET start == call.args[1]
        end   == call.args[2]
    IN  /\ call.error # NoError <=> (start < 0 \/ end < start)
        /\ call.error # NoError => call.returned = <<>>
        /\ call.error = NoError =>
             /\ call.returned = <<[start |-> start, end |-> end]>>
             /\ 0 <= call.returned[1].start
             /\ call.returned[1].start <= call.returned[1].end
             /\ length(call.returned[1]) = end - start

\* a Range of length zero was constructed
C23_Witness ==
  /\ call.op = "Range"
  /\ call.args = <<2, 2>>
  /\ call.error = NoError
  /\ call.returned # <<>>
  /\ length(call.returned[1]) = 0

\* C24: when the input side of a TokenizerStream is closed while the tokenizer
\* is in Escape or Interpolation mode, the output side is errored with the
\* corresponding unterminated-input error (not closed normally, the error not
\* dropped), after every token completed before the end of the input was
\* enqueued in order, and no final token is enqueued.
C24_StreamErrorsAtClose ==
  [][( /\ pc = "started"
       /\ pc' # "started"
       /\ value' = value
       /\ state.type \in {ModeEscape, ModeInterpolation} ) =>
       /\ pc' = "errored"
       /\ error' = IF state.type = ModeEscape
                   THEN EscapeError ELSE InterpolationError
       /\ tokens' = tokens
       /\ tokens' =
            processCharacters(createState, processed, <<>>).tokens]_vars

\* the stream was closed after a dangling backslash, two tokens having been
\* enqueued before
C24_Witness ==
  /\ pc = "errored"
  /\ error = EscapeError
  /\ state.type = ModeEscape
  /\ Len(tokens) = 2

\* C25: the incremental compressor equals the batch one: the tokens handed one
\* at a time to the streaming compressor (transform per token, then flush)
\* come out as compressTokens of the whole sequence; so for every input ending
\* in Literal mode and every chunking of it, TokenizerStream piped through
\* TokenCompressorStream emits exactly compressTokens(tokenize(input)).
C25_PipelineEqualsBatch ==
  cpc = "flushed" =>
    /\ output = compressTokens(tokens).tokens
    /\ tokenize(value).error = NoError
    /\ output = compressTokens(tokenize(value).tokens).tokens

\* (C25, the part that holds) whatever tokens the streaming compressor was
\* handed, what it has emitted once flushed is compressTokens of them, and up
\* to then what it has emitted and holds is what the batch loop has after as
\* many tokens.
C25_IncrementalEqualsBatch ==
  /\ cpc = "flushed" => output = compressTokens(tokens).tokens
  /\ cpc = "open" =>
       LET run == processTokens([lastToken |-> NoToken],
                                SubSeq(tokens, 1, consumed), <<>>)
       IN  output = run.output /\ cstate = run.state

\* C26: tokenization sessions are isolated: when the character-processing
\* steps of two sessions, each with its own state from createState, are
\* interleaved in any order, each session emits exactly the tokens (values and
\* ranges) and reaches exactly the state it would when run alone.
C26_SessionsIsolated ==
  \A i \in 1..Len(sessions) :
    LET alone == processCharacters(createState, sessions[i].processed, <<>>)
    IN  /\ alone.error = NoError
        /\ sessions[i].tokens = alone.tokens
        /\ SessionState(sessions[i], heap) = alone.state

\* two sessions have each processed two characters and emitted a token
C26_Witness ==
  /\ Len(sessions) = 2
  /\ sessions[1].processed = << <<"a">>, <<"{">> >>
  /\ sessions[2].processed = << <<"\n">>, <<"\\">> >>
  /\ Len(sessions[1].tokens) = 1
  /\ Len(sessions[2].tokens) = 1
  /\ heap[sessions[1].ref] # heap[sessions[2].ref]

\* C27: no emitted token has an empty value: every token the tokenizer
\* produces (by a delimiter flush, an escape, an interpolation close or the
\* final flush), enqueued by the stream or returned by tokenize, has a value
\* of length >= 1; in particular a `}` that closes an interpolation holding
\* nothing, as in `{}`, adds no token.
C27_NoEmptyToken ==
  /\ \A i \in 1..Len(tokens) : Len(tokens[i].value) >= 1
  /\ \A i \in 1..Len(result.tokens) : Len(result.tokens[i].value) >= 1
  /\ (/\ pc = "started"
      /\ Len(processed) >= 2
      /\ SubSeq(processed, Len(processed) - 1, Len(processed))
           = << <<"{">>, <<"}">> >>)
     => LET before == processCharacters(createState,
                        SubSeq(processed, 1, Len(processed) - 2), <<>>)
            opened == processCharacter(before.state, <<"{">>, before.tokens)
        IN  before.state.type = ModeLiteral
              => /\ tokens = opened.tokens
                 /\ state.type = ModeLiteral

\* the stream has taken `a{}a` and closed: the only tokens are the two
\* literals, and tokenize of the same text has returned them too
C27_Witness ==
  /\ pc = "flushed"
  /\ processed = << <<"a">>, <<"{">>, <<"}">>, <<"a">> >>
  /\ Len(tokens) = 2
  /\ result.called
  /\ Len(result.tokens) = 2

\* C28: the Literal token emitted in Escape mode has a range that starts at
\* the tracker position at which Escape mode was entered (the position
\* captured when the backslash was handled) and ends at the tracker position
\* after the escaped character, for every way of entering Escape mode,
\* including when the Literal buffer was empty when the backslash was read.
C28_EscapeRange ==
  [][( /\ OneCharacterStep
       /\ state.type = ModeEscape ) =>
       /\ Len(tokens') = Len(tokens) + 1
       /\ Last(tokens').type = Literal
       /\ Last(tokens').range =
            complete(snapshot(state.locationTracker),
                     snapshot(state'.locationTracker))]_vars

\* C29: flushState in Literal mode returns the token generated from the
\* state by this flush, if any, and undefined when the buffer was empty,
\* whatever tokens the array passed to it already contains.
C29_FlushStateReturn ==
  (call.op = "flushState" /\ call.args[1].type = ModeLiteral) =>
    LET before == call.args[1]
        passed == call.args[2]
    IN  /\ call.error = NoError
        /\ IF Len(before.buffer) > 0
           THEN /\ Len(tokens) = Len(passed) + 1
                /\ Last(tokens).type = Literal
                /\ Last(tokens).value = before.buffer
                /\ call.returned = <<Last(tokens)>>
           ELSE /\ tokens = passed
                /\ call.returned = <<>>

\* C30: state-shape invariant: in every reachable tokenizer state the buffer
\* field is a string exactly when the mode is Literal or Interpolation and is
\* undefined in Escape mode, and the depth field n is a number exactly when
\* the mode is Interpolation and is undefined otherwise.
C30_StateShape ==
  LET isString == /\ state.buffer # undefined
                  /\ \A i \in 1..Len(state.buffer) :
                       state.buffer[i] # undefined[1]
      isNumber == /\ state.n # undefinedNumber
                  /\ Len(state.n) = 1
                  /\ state.n[1] \in Int
  IN  /\ state.type \in {ModeLiteral, ModeEscape, ModeInterpolation}
      /\ isString <=> state.type \in {ModeLiteral, ModeInterpolation}
      /\ state.buffer = undefined <=> state.type = ModeEscape
      /\ isNumber <=> state.type = ModeInterpolation
      /\ state.n = undefinedNumber <=> state.type # ModeInterpolation

\* the tokenizer has been through all three modes: after `{a}` it is back in
\* Literal mode and the backslash that follows has put it in Escape mode
C30_Witness ==
  /\ pc = "started"
  /\ processed = << <<"{">>, <<"a">>, <<"}">>, <<"\\">> >>
  /\ state.type = ModeEscape
  /\ state.buffer = undefined
  /\ state.n = undefinedNumber

\* C31: streaming tokenizer lifecycle: TokenizerStreamTransformer accepts one
\* start, then any number of transform calls, then flush; a second start
\* fails with 'has already been started', and transform or flush called
\* before start fails with 'has not been started', in each case without
\* processing any input or enqueuing any token.
C31_Lifecycle ==
  LET started   == call.before.pc # "constructed"
      untouched == /\ pc = call.before.pc
                   /\ state = call.before.state
                   /\ tokens = call.before.tokens
                   /\ processed = call.before.processed
                   /\ error = call.before.error
  IN  /\ call.op = "start" =>
           IF started
           THEN call.error = AlreadyStarted /\ untouched
           ELSE /\ call.error = NoError
                /\ state = createState
                /\ tokens = <<>> /\ processed = <<>>
      /\ call.op \in {"transform", "flush"} =>
           IF started
           THEN call.error = NoError
           ELSE call.error = NotStarted /\ untouched
      /\ call.op = "transform" /\ started =>
           /\ processed = call.before.processed \o characters(call.args[1])
           /\ tokens = call.before.tokens
                         \o tokenizeChunk(call.before.state,
                                          call.args[1]).tokens

\* a second start has failed after a transform call enqueued a token
C31_Witness ==
  /\ call.op = "start"
  /\ call.error = AlreadyStarted
  /\ call.before.pc = "running"
  /\ Len(tokens) >= 1

\* C32: LocationSnapshot.complete(other) performs no validation of the order
\* of the two snapshots: for any two snapshots it returns a RangeWithLocation
\* whose start offset and start location come from the receiver and whose end
\* offset and end location come from the argument, also when the argument's
\* offset is smaller than the receiver's.  Taken for snapshots of positions
\* that exist: offset >= 0, line >= 1, column >= 0.
C32_CompleteUnvalidated ==
  LET this == call.args[1]
      other == call.args[2]
  IN  ( /\ call.op = "LocationSnapshot.complete"
        /\ this.offset >= 0 /\ this.line >= 1 /\ this.column >= 0
        /\ other.offset >= 0 /\ other.line >= 1 /\ other.column >= 0 ) =>
        /\ call.error = NoError
        /\ call.returned =
             << RangeWithLocation(this.offset, other.offset,
                                  Location(this.line, this.column),
                                  Location(other.line, other.column)) >>

\* C32 as the code has it: complete(other) checks nothing itself, but the
\* RangeWithLocation and the Locations it constructs do: it returns the range
\* from the receiver to the argument exactly when both snapshots have
\* line >= 1 and column >= 0, the receiver's offset is >= 0 and the argument's
\* offset is not smaller than the receiver's; otherwise it fails, with 'End
\* offset must be greater than or equal to start' when only the order is
\* wrong.
C32_CompleteValidatedByRange ==
  call.op = "LocationSnapshot.complete" =>
    LET this == call.args[1]
        other == call.args[2]
        valid == /\ this.line >= 1 /\ this.column >= 0
                 /\ other.line >= 1 /\ other.column >= 0
                 /\ this.offset >= 0
    IN  /\ (valid /\ other.offset >= this.offset) =>
             /\ call.error = NoError
             /\ call.returned =
                  << RangeWithLocation(this.offset, other.offset,
                                       Location(this.line, this.column),
                                       Location(other.line, other.column)) >>
        /\ ~(valid /\ other.offset >= this.offset) =>
             /\ call.error # NoError
             /\ call.returned = <<>>
        /\ (valid /\ other.offset < this.offset) =>
             call.error = "End offset must be greater than or equal to start"

\* complete was called with an argument that lies before the receiver
C32_Witness ==
  /\ call.op = "LocationSnapshot.complete"
  /\ call.args[1] = LocationSnapshot(2, 1, 1)
  /\ call.args[2] = LocationSnapshot(1, 1, 0)
  /\ call.error = "End offset must be greater than or equal to start"

\* C33: Interpolation mode is quote-unaware and escape-unaware: only `{` and
\* `}` change the depth or the mode; every other character, including a
\* backslash and quote characters, is appended verbatim to the buffer without
\* changing depth or mode, so a `}` that follows a backslash or sits inside a
\* quoted string still decrements the depth and closes the interpolation
\* when the depth reaches 0.
C33_InterpolationUnaware ==
  [][( /\ pc = "collecting"
       /\ state.type = ModeInterpolation
       /\ Len(processed') = Len(processed) + 1 ) =>
       LET character == Last(processed')
           appended  == /\ state'.type = ModeInterpolation
                        /\ state'.buffer = state.buffer \o character
                        /\ tokens' = tokens
       IN  CASE character = <<"{">> ->
                  appended /\ state'.n = Num(state.n[1] + 1)
             [] character = <<"}">> /\ state.n[1] > 1 ->
                  appended /\ state'.n = Num(state.n[1] - 1)
             [] character = <<"}">> /\ state.n[1] <= 1 ->
                  /\ state'.type = ModeLiteral
                  /\ state'.n = undefinedNumber
                  /\ state'.buffer = <<>>
                  /\ IF state.buffer = <<>> THEN tokens' = tokens
                     ELSE /\ Len(tokens') = Len(tokens) + 1
                          /\ SubSeq(tokens', 1, Len(tokens)) = tokens
                          /\ Last(tokens').type = Interpolation
                          /\ Last(tokens').value = state.buffer
             [] OTHER -> appended /\ state'.n = state.n]_vars

\* the `}` inside the quotes of `{'}'` has closed the interpolation: the
\* token holds the opening quote alone and the second quote is literal text
C33_Witness ==
  /\ pc = "collecting"
  /\ processed = << <<"{">>, <<"'">>, <<"}">>, <<"'">> >>
  /\ Len(tokens) = 1
  /\ tokens[1].type = Interpolation
  /\ tokens[1].value = <<"'">>
  /\ state.type = ModeLiteral
  /\ state.buffer = <<"'">>

C36_BraceDepth ==
  state.type = ModeInterpolation =>
    /\ state.n # undefinedNumber
    /\ state.n[1] >= 1
    /\ state.n[1] = 1 + Count(state.buffer, "{") - Count(state.buffer, "}")

\* the tokenizer stands inside a nested interpolation that has closed one of
\* its inner braces: the buffer is `{}{` and the depth is 2
C36_Witness ==
  /\ pc = "started"
  /\ state.type = ModeInterpolation
  /\ state.buffer = <<"{", "}", "{">>
  /\ state.n = Num(2)

\* C37: every Interpolation token emitted by the tokenizer has a
\* brace-balanced value: it contains as many `{` as `}`, and in every prefix
\* of the value the number of `}` does not exceed the number of `{`.
C37_BalancedInterpolations ==
  /\ \A i \in 1..Len(tokens) :
       tokens[i].type = Interpolation => Balanced(tokens[i].value)
  /\ \A i \in 1..Len(result.tokens) :
       result.tokens[i].type = Interpolation
         => Balanced(result.tokens[i].value)

\* the stream has enqueued the Interpolation token of `{{}}`, whose value is
\* the inner pair of braces
C37_Witness ==
  /\ Len(tokens) = 1
  /\ tokens[1].type = Interpolation
  /\ tokens[1].value = <<"{", "}">>

\* C38: mode transition graph: the only mode changes that ever occur are
\* Literal to Escape (on `\`), Literal to Interpolation (on `{`), Escape to
\* Literal (on any character) and Interpolation to Literal (on the closing
\* `}`); Escape mode therefore lasts exactly one character, and Escape and
\* Interpolation are never entered from each other.
C38_ModeTransitions ==
  [][IF pc = "collecting" /\ Len(processed') = Len(processed) + 1
     THEN LET character == Last(processed')
          IN  CASE state.type = ModeLiteral ->
                     state'.type = (IF character = <<"\\">> THEN ModeEscape
                                    ELSE IF character = <<"{">>
                                    THEN ModeInterpolation
                                    ELSE ModeLiteral)
                [] state.type = ModeEscape ->
                     state'.type = ModeLiteral
                [] state.type = ModeInterpolation ->
                     state'.type = (IF character = <<"}">> /\ state.n = Num(1)
                                    THEN ModeLiteral
                                    ELSE ModeInterpolation)
     ELSE state'.type = state.type]_vars

\* the tokenizer has been from Literal to Escape and back and from Literal to
\* Interpolation and back on the four characters backslash, `{`, `{`, `}`
C38_Witness ==
  /\ pc = "collecting"
  /\ processed = << <<"\\">>, <<"{">>, <<"{">>, <<"}">> >>
  /\ state.type = ModeLiteral
  /\ Len(tokens) = 1

\* C39: a failed finalization changes nothing: when flushState raises because
\* the state is in Escape or Interpolation mode, the mode, buffer, depth,
\* tracker position and last-flush snapshot are all unchanged and no token is
\* added to the tokens array.
C39_FailedFlushChangesNothing ==
  call.op = "flushState" =>
    LET before == call.args[1]
        passed == call.args[2]
    IN  /\ call.error # NoError
             <=> before.type \in {ModeEscape, ModeInterpolation}
        /\ call.error # NoError =>
             /\ state.type = before.type
             /\ state.buffer = before.buffer
             /\ state.n = before.n
             /\ state.locationTracker = before.locationTracker
             /\ state.locationSnapshot = before.locationSnapshot
             /\ tokens = passed
             /\ call.returned = <<>>

\* flushState has failed inside an interpolation that holds text, after a
\* token was collected
C39_Witness ==
  /\ call.op = "flushState"
  /\ call.error = InterpolationError
  /\ state.type = ModeInterpolation
  /\ Len(state.buffer) >= 1
  /\ Len(tokens) >= 1

====
